---- MODULE Spec2Model ----
(***************************************************************************)
(* Model of the two helper scripts of pixelscript:                         *)
(*   scripts/build.py  builds the crate and collects the compiled          *)
(*                     libraries into the folder pxsb;                     *)
(*   scripts/test.py   runs the command written on line 9 of every file    *)
(*                     of tests/ that is not skipped.                      *)
(* Python strings are modelled as sequences of one-character strings, so   *)
(* that split, startswith, "in" and the glob patterns are computed on the  *)
(* characters as the scripts compute them.                                 *)
(***************************************************************************)
EXTENDS Integers, Sequences, FiniteSets, TLC

VARIABLES
    \* ---- build.py ----
    argv,             \* sys.argv[1:]
    ai,               \* number of arguments the for loop has consumed
    target,           \* "--target=<triple>" or ""
    rtarget,          \* the triple
    features,         \* list of feature arguments
    cmd,              \* the command handed to subprocess.call
    path_to_build,
    path_to_release,
    fs,               \* regular files below target/ (cargo's output)
    dirOrder,         \* the order in which the file system lists entries
    pxsb,             \* the destination folder SOURCE
    pc,               \* position of build.py
    todo,             \* copies still to be made by the running collect_libs
    dirs,             \* entries of build_dir the for loop has not visited
    runs,             \* number of the current run of build.py
    before,           \* content of pxsb when the current run started
    found,            \* paths the globs of the current run returned
    copied,           \* paths the current run copied
    \* ---- test.py ----
    skipArgs,         \* sys.argv[1:]
    skipped_tests,
    testFiles,        \* content of tests/: name -> sequence of lines
    listing,          \* os.listdir("tests"), in the order the system gives
    ti,               \* number of entries of the for loop already handled
    tpc,              \* position of test.py
    opened,           \* names test.py opened for reading
    executed          \* commands handed to os.system, in order

buildVars == <<argv, ai, target, rtarget, features, cmd, path_to_build,
               path_to_release, fs, dirOrder, pxsb, pc, todo, dirs, runs,
               before, found, copied>>
testVars == <<skipArgs, skipped_tests, testFiles, listing, ti, tpc, opened,
              executed>>
vars == <<buildVars, testVars>>

----------------------------------------------------------------------------
(* Bounds of the model *)

MaxFiles == 3     \* files below target/ in one file system
MaxRuns == 2      \* successive runs of build.py
MaxArgs == 2      \* arguments on the command line of build.py
MaxSkip == 1      \* skip arguments on the command line of test.py
MaxTests == 3     \* entries of tests/

----------------------------------------------------------------------------
(* Python string operations *)

Last(s) == s[Len(s)]

\* prefix in Python: s.startswith(p)
StartsWith(s, p) == Len(p) <= Len(s) /\ SubSeq(s, 1, Len(p)) = p

EndsWith(s, p) == Len(p) <= Len(s) /\ SubSeq(s, Len(s) - Len(p) + 1, Len(s)) = p

\* sub in s
Contains(sub, s) ==
    \E i \in 1..(Len(s) - Len(sub) + 1) : SubSeq(s, i, i + Len(sub) - 1) = sub

RECURSIVE Cuts(_, _, _)
\* where s.split cuts: scanning from the left, the next occurrence of the
\* separator at or after position from, then on behind it
Cuts(occ, from, n) ==
    IF \A p \in occ : p < from THEN <<>>
    ELSE LET next == CHOOSE p \in occ : p >= from /\ \A q \in occ : q >= from => p <= q
         IN  <<next>> \o Cuts(occ, next + n, n)

\* s.split(sep)
Split(s, sep) ==
    LET n == Len(sep)
        occ == {i \in 1..(Len(s) - n + 1) : SubSeq(s, i, i + n - 1) = sep}
        cuts == Cuts(occ, 1, n)
    IN  [k \in 1..(Len(cuts) + 1) |->
            SubSeq(s, IF k = 1 THEN 1 ELSE cuts[k - 1] + n,
                      IF k = Len(cuts) + 1 THEN Len(s) ELSE cuts[k] - 1)]

\* s.replace(a, b) for single characters a and b
Replace(s, a, b) == [i \in 1..Len(s) |-> IF s[i] = a THEN b ELSE s[i]]

RECURSIVE Join(_, _)
\* sep.join(parts)
Join(parts, sep) ==
    IF parts = <<>> THEN <<>>
    ELSE IF Len(parts) = 1 THEN parts[1]
    ELSE parts[1] \o sep \o Join(Tail(parts), sep)

----------------------------------------------------------------------------
(* Order of directory listings.  os.listdir and glob return entries in the *)
(* order of the file system; the model lets it be the ascending or the     *)
(* descending lexicographic order, the same in every run.                  *)

Alphabet == <<"\n", " ", "-", ".", "/", "1", "2", "4", "5", "=", "\\",
              "_", "a", "b", "c", "d", "e", "f", "g", "h", "i", "j", "k",
              "l", "m", "n", "o", "p", "r", "s", "t", "u", "v", "x", "y">>

CharRank(c) == CHOOSE i \in 1..Len(Alphabet) : Alphabet[i] = c

RECURSIVE Less(_, _)
Less(a, b) ==
    IF b = <<>> THEN FALSE
    ELSE IF a = <<>> THEN TRUE
    ELSE IF Head(a) = Head(b) THEN Less(Tail(a), Tail(b))
    ELSE CharRank(Head(a)) < CharRank(Head(b))

Before(order, a, b) == IF order = "asc" THEN Less(a, b) ELSE Less(b, a)

RECURSIVE Listed(_, _)
\* the elements of S in the order the file system lists them
Listed(order, S) ==
    IF S = {} THEN <<>>
    ELSE LET first == CHOOSE x \in S : \A y \in S \ {x} : Before(order, x, y)
         IN  <<first>> \o Listed(order, S \ {first})

----------------------------------------------------------------------------
(* build.py: configuration *)

CRATE_NAME == <<"p", "i", "x", "e", "l", "s", "c", "r", "i", "p", "t">>
LIB_CRATES == <<<<"m", "l", "u", "a">>, CRATE_NAME>>
SOURCE == <<"p", "x", "s", "b">>
VALID_EXTENSIONS == <<<<"l", "i", "b">>, <<"a">>, <<"s", "o">>, <<"d", "y", "l", "i", "b">>>>

Slash == <<"/">>
Dot == <<".">>

convert_path(path) == Replace(path, "\\", "/")

get_ext(path) == Last(Split(path, Dot))

\* the name move gives the copy inside SOURCE
file_name(old) == Last(Split(Split(old, Dot)[1], Slash))

DestName(old) == file_name(convert_path(old)) \o Dot \o get_ext(convert_path(old))

----------------------------------------------------------------------------
(* The file system below target/ and glob *)

\* every existing path: the files and the directories that hold them
RECURSIVE Prefixes(_)
Prefixes(comps) ==
    IF Len(comps) = 0 THEN {}
    ELSE {comps} \cup Prefixes(SubSeq(comps, 1, Len(comps) - 1))

Entries(files) == UNION {Prefixes(Split(f, Slash)) : f \in files}

Hidden(name) == name # <<>> /\ Head(name) = "."

\* one component of a glob pattern against one name; the only wildcard the
\* patterns of build.py use is a leading '*'
MatchComp(pat, name) ==
    IF pat # <<>> /\ Head(pat) = "*"
    THEN ~Hidden(name) /\ EndsWith(name, Tail(pat))
    ELSE pat = name

RECURSIVE MatchPath(_, _)
\* glob(pattern, recursive=True): '**' stands for any number of directories
MatchPath(pat, comps) ==
    IF pat = <<>> THEN comps = <<>>
    ELSE IF Head(pat) = <<"*", "*">>
    THEN \/ MatchPath(Tail(pat), comps)
         \/ /\ comps # <<>>
            /\ ~Hidden(Head(comps))
            /\ MatchPath(pat, Tail(comps))
    ELSE /\ comps # <<>>
         /\ MatchComp(Head(pat), Head(comps))
         /\ MatchPath(Tail(pat), Tail(comps))

\* glob(pattern, recursive=True) on the file system, in listing order
glob(files, order, pattern) ==
    LET pat == Split(pattern, Slash)
    IN  Listed(order, {Join(e, Slash) : e \in
                         {c \in Entries(files) : MatchPath(pat, c)}})

RECURSIVE GlobExts(_, _, _, _, _)
\* collect_libs: the paths it hands to move, in order
GlobExts(files, order, folder, rule, exts) ==
    IF exts = <<>> THEN <<>>
    ELSE glob(files, order, folder \o rule \o Dot \o Head(exts))
         \o GlobExts(files, order, folder, rule, Tail(exts))

RuleDirect == <<"/", "*">>
\* variant: the recursive search starts in the sub-directory out
RuleOut == <<"/", "o", "u", "t", "/", "*", "*", "/", "*">>
RuleRecursive == <<"/", "*", "*", "/", "*">>

\* variant: the pattern carries no extension
collect_any(files, order, folder, rule) == glob(files, order, folder \o rule)

collect_libs(files, order, folder, rule) ==
    GlobExts(files, order, folder, rule, VALID_EXTENSIONS)

\* os.listdir(folder): the names of its entries
listdir(files, order, folder) ==
    LET fc == Split(folder, Slash)
    IN  Listed(order, {c[Len(fc) + 1] : c \in
                 {e \in Entries(files) :
                      Len(e) > Len(fc) /\ SubSeq(e, 1, Len(fc)) = fc}})

IsDir(files, path) ==
    \E f \in files : StartsWith(f, path \o Slash)

----------------------------------------------------------------------------
(* The inputs of build.py *)

\* files cargo may have left below target/
FileUniverse ==
    { <<"t", "a", "r", "g", "e", "t", "/", "r", "e", "l", "e", "a", "s", "e", "/", "p", "i", "x", "e", "l", "s", "c", "r", "i", "p", "t", ".", "s", "o">>,
      <<"t", "a", "r", "g", "e", "t", "/", "r", "e", "l", "e", "a", "s", "e", "/", "o", "t", "h", "e", "r", ".", "t", "x", "t">>,
      <<"t", "a", "r", "g", "e", "t", "/", "r", "e", "l", "e", "a", "s", "e", "/", "l", "i", "b", ".", "1", ".", "a">>,
      <<"t", "a", "r", "g", "e", "t", "/", "r", "e", "l", "e", "a", "s", "e", "/", "a", "\\", "b", ".", "s", "o">>,
      <<"t", "a", "r", "g", "e", "t", "/", "r", "e", "l", "e", "a", "s", "e", "/", "d", "e", "p", "s", "/", "p", "i", "x", "e", "l", "s", "c", "r", "i", "p", "t", ".", "s", "o">>,
      <<"t", "a", "r", "g", "e", "t", "/", "r", "e", "l", "e", "a", "s", "e", "/", "b", "u", "i", "l", "d", "/", "m", "l", "u", "a", "-", "1", "/", "o", "u", "t", "/", "l", "u", "a", ".", "a">>,
      <<"t", "a", "r", "g", "e", "t", "/", "r", "e", "l", "e", "a", "s", "e", "/", "b", "u", "i", "l", "d", "/", "m", "l", "u", "a", "-", "1", "/", "l", "u", "a", ".", "a">>,
      <<"t", "a", "r", "g", "e", "t", "/", "r", "e", "l", "e", "a", "s", "e", "/", "b", "u", "i", "l", "d", "/", "m", "l", "u", "a", "-", "1", "/", ".", "h", ".", "a">>,
      <<"t", "a", "r", "g", "e", "t", "/", "r", "e", "l", "e", "a", "s", "e", "/", "b", "u", "i", "l", "d", "/", "m", "l", "u", "a", "-", "1", "/", "d", ".", "a", "/", "n", ".", "t", "x", "t">>,
      <<"t", "a", "r", "g", "e", "t", "/", "r", "e", "l", "e", "a", "s", "e", "/", "b", "u", "i", "l", "d", "/", "c", "c", "-", "1", "/", "o", "u", "t", "/", "c", "c", ".", "a">>,
      <<"t", "a", "r", "g", "e", "t", "/", "r", "e", "l", "e", "a", "s", "e", "/", "b", "u", "i", "l", "d", "/", "p", "i", "x", "e", "l", "s", "c", "r", "i", "p", "t", "-", "2", "/", "o", "u", "t", "/", "v", "5", ".", "4", "/", "l", "u", "a", ".", "a">>,
      <<"t", "a", "r", "g", "e", "t", "/", "x", "/", "r", "e", "l", "e", "a", "s", "e", "/", "p", "i", "x", "e", "l", "s", "c", "r", "i", "p", "t", ".", "s", "o">>,
      <<"t", "a", "r", "g", "e", "t", "/", "x", "/", "r", "e", "l", "e", "a", "s", "e", "/", "b", "u", "i", "l", "d", "/", "m", "l", "u", "a", "-", "1", "/", "o", "u", "t", "/", "l", "u", "a", ".", "a">> }

FileSystems == {F \in SUBSET FileUniverse : Cardinality(F) <= MaxFiles}

ListOrders == {"asc", "desc"}

ArgTarget == <<"t", "a", "r", "g", "e", "t", "=", "x">>
ArgFeatures == <<"f", "e", "a", "t", "u", "r", "e", "s", "=", "f">>
ArgFeaturesTarget == <<"f", "e", "a", "t", "u", "r", "e", "s", "=", "t", "a", "r", "g", "e", "t">>
ArgTokens == {ArgTarget, ArgFeatures, ArgFeaturesTarget}

RECURSIVE SeqsUpTo(_, _)
SeqsUpTo(S, n) ==
    IF n = 0 THEN {<<>>}
    ELSE LET shorter == SeqsUpTo(S, n - 1)
         IN  shorter \cup {Append(s, x) : s \in shorter, x \in S}

ArgLists == SeqsUpTo(ArgTokens, MaxArgs)

\* what SOURCE may be before the first run
NoSource == [kind |-> "absent", files |-> {}]
FileSource == [kind |-> "file", files |-> {}]
Leftover ==
    [kind |-> "dir",
     files |-> { [name |-> <<"j", "u", "n", "k", ".", "t", "x", "t">>, src |-> <<>>, run |-> 0, isdir |-> FALSE],
                 [name |-> <<"l", "u", "a", ".", "a">>, src |-> <<>>, run |-> 0, isdir |-> FALSE],
                 [name |-> <<"s", "u", "b">>, src |-> <<>>, run |-> 0, isdir |-> TRUE] }]
InitialSources == {NoSource, FileSource, Leftover}

----------------------------------------------------------------------------
(* build.py: the steps *)

\* variant: SOURCE is created but never cleared
mkdir_only(p) ==
    IF p.kind = "file" THEN [ok |-> FALSE, pxsb |-> p]
    ELSE [ok |-> TRUE, pxsb |-> [kind |-> "dir", files |-> p.files]]

\* variant: SOURCE is created only when it was not there to be cleared
rmtree_else_mkdir(p) ==
    IF p.kind = "dir" THEN [ok |-> TRUE, pxsb |-> [kind |-> "absent", files |-> {}]]
    ELSE IF p.kind = "absent"
         THEN [ok |-> TRUE, pxsb |-> [kind |-> "dir", files |-> {}]]
         ELSE [ok |-> FALSE, pxsb |-> p]

\* lines 81-85: clear SOURCE if it is a directory, then create it
rmtree_mkdir(p) ==
    IF p.kind = "dir" THEN [ok |-> TRUE, pxsb |-> [kind |-> "dir", files |-> {}]]
    ELSE IF p.kind = "absent"
         THEN [ok |-> TRUE, pxsb |-> [kind |-> "dir", files |-> {}]]
         ELSE [ok |-> FALSE, pxsb |-> p]     \* mkdir raises FileExistsError

\* shutil.copy(old, SOURCE/name) in run r
copy(p, old, name, r) ==
    IF \E e \in p.files : e.name = name /\ e.isdir
    THEN p                                    \* the copy lands inside that directory
    ELSE [p EXCEPT !.files =
             {e \in p.files : e.name # name}
             \cup {[name |-> name, src |-> old, run |-> r, isdir |-> FALSE]}]

\* variant: every entry of build_dir is searched
MatchesAnyCrate(path, lib) == TRUE

\* does path.startswith(lib) hold for the crate lib
MatchesCrate(path, lib) == StartsWith(path, lib)

RECURSIVE CollectCrates(_, _, _, _, _)
\* lines 93-98: the inner for loop over LIB_CRATES for one entry of build_dir
CollectCrates(files, order, build_dir, path, crates) ==
    IF crates = <<>> THEN <<>>
    ELSE (IF MatchesCrate(path, Head(crates))
          THEN collect_libs(files, order, build_dir \o Slash \o path, RuleRecursive)
          ELSE <<>>)
         \o CollectCrates(files, order, build_dir, path, Tail(crates))

\* lines 53-61: one iteration of the loop over argv
ParseArg ==
    /\ pc = "args"
    /\ ai < Len(argv)
    /\ LET arg == argv[ai + 1]
       IN  IF Contains(<<"t", "a", "r", "g", "e", "t">>, arg)
           THEN /\ rtarget' = Last(Split(arg, <<"=">>))
                /\ target' = <<"-", "-", "t", "a", "r", "g", "e", "t", "=">> \o Last(Split(arg, <<"=">>))
                /\ UNCHANGED features
           ELSE IF Contains(<<"f", "e", "a", "t", "u", "r", "e", "s">>, arg)
           THEN /\ features' = features \o <<<<"-", "-", "f", "e", "a", "t", "u", "r", "e", "s">>, Last(Split(arg, <<"=">>))>>
                /\ UNCHANGED <<target, rtarget>>
           ELSE UNCHANGED <<target, rtarget, features>>
    /\ ai' = ai + 1
    /\ UNCHANGED <<argv, cmd, path_to_build, path_to_release, fs, dirOrder, pxsb,
                   pc, todo, dirs, runs, before, found, copied>>
    /\ UNCHANGED testVars

\* lines 63-78: build the command, call cargo, resolve the directories
RunCargo ==
    /\ pc = "args"
    /\ ai = Len(argv)
    /\ cmd' = <<<<"c", "a", "r", "g", "o">>, <<"b", "u", "i", "l", "d">>, <<"-", "-", "r", "e", "l", "e", "a", "s", "e">>>>
              \o (IF target # <<>> THEN <<target>> ELSE <<>>)
              \o (IF Len(features) > 1 THEN features ELSE <<>>)
    /\ path_to_build' = IF target # <<>>
                        THEN <<"t", "a", "r", "g", "e", "t", "/">> \o rtarget \o <<"/", "r", "e", "l", "e", "a", "s", "e", "/", "b", "u", "i", "l", "d">>
                        ELSE <<"t", "a", "r", "g", "e", "t", "/", "r", "e", "l", "e", "a", "s", "e", "/", "b", "u", "i", "l", "d">>
    /\ path_to_release' = IF target # <<>>
                          THEN <<"t", "a", "r", "g", "e", "t", "/">> \o rtarget \o <<"/", "r", "e", "l", "e", "a", "s", "e">>
                          ELSE <<"t", "a", "r", "g", "e", "t", "/", "r", "e", "l", "e", "a", "s", "e">>
    /\ pc' = "built"
    /\ UNCHANGED <<argv, ai, target, rtarget, features, fs, dirOrder, pxsb, todo,
                   dirs, runs, before, found, copied>>
    /\ UNCHANGED testVars

\* lines 81-85
PrepareSource ==
    /\ pc = "built"
    /\ pxsb' = rmtree_mkdir(pxsb).pxsb
    /\ pc' = IF rmtree_mkdir(pxsb).ok THEN "prepared" ELSE "crashed"
    /\ UNCHANGED <<argv, ai, target, rtarget, features, cmd, path_to_build,
                   path_to_release, fs, dirOrder, todo, dirs, runs, before, found,
                   copied>>
    /\ UNCHANGED testVars

\* line 88: collect_libs(path_to_release, rule="/*")
CollectRelease ==
    /\ pc = "prepared"
    /\ todo' = collect_libs(fs, dirOrder, path_to_release, RuleDirect)
    /\ found' = found \cup {todo'[i] : i \in 1..Len(todo')}
    /\ pc' = "release"
    /\ UNCHANGED <<argv, ai, target, rtarget, features, cmd, path_to_build,
                   path_to_release, fs, dirOrder, pxsb, dirs, runs, before, copied>>
    /\ UNCHANGED testVars

\* lines 28-34: move(lib) for the next path the glob returned
Move ==
    /\ pc \in {"release", "build"}
    /\ todo # <<>>
    /\ LET old == convert_path(Head(todo))
       IN  IF old \in fs /\ pxsb.kind = "dir"
           THEN /\ pxsb' = copy(pxsb, old, DestName(Head(todo)), runs)
                /\ copied' = copied \cup {old}
                /\ todo' = Tail(todo)
                /\ pc' = pc
           ELSE \* shutil.copy raises: no such file, a directory, or no SOURCE
                /\ pc' = "crashed"
                /\ todo' = <<>>
                /\ UNCHANGED <<pxsb, copied>>
    /\ UNCHANGED <<argv, ai, target, rtarget, features, cmd, path_to_build,
                   path_to_release, fs, dirOrder, dirs, runs, before, found>>
    /\ UNCHANGED testVars

\* line 92: os.listdir(build_dir)
ListBuildDir ==
    /\ pc = "release"
    /\ todo = <<>>
    /\ IF IsDir(fs, path_to_build)
       THEN /\ dirs' = listdir(fs, dirOrder, path_to_build)
            /\ pc' = "build"
       ELSE /\ dirs' = <<>>                  \* FileNotFoundError
            /\ pc' = "crashed"
    /\ UNCHANGED <<argv, ai, target, rtarget, features, cmd, path_to_build,
                   path_to_release, fs, dirOrder, pxsb, todo, runs, before, found,
                   copied>>
    /\ UNCHANGED testVars

\* lines 92-98: one iteration of the loop over the entries of build_dir
VisitBuildEntry ==
    /\ pc = "build"
    /\ todo = <<>>
    /\ dirs # <<>>
    /\ todo' = CollectCrates(fs, dirOrder, path_to_build, Head(dirs), LIB_CRATES)
    /\ found' = found \cup {todo'[i] : i \in 1..Len(todo')}
    /\ dirs' = Tail(dirs)
    /\ UNCHANGED <<argv, ai, target, rtarget, features, cmd, path_to_build,
                   path_to_release, fs, dirOrder, pxsb, pc, runs, before, copied>>
    /\ UNCHANGED testVars

\* line 100: the loop is over
Finish ==
    /\ pc = "build"
    /\ todo = <<>>
    /\ dirs = <<>>
    /\ pc' = "done"
    /\ UNCHANGED <<argv, ai, target, rtarget, features, cmd, path_to_build,
                   path_to_release, fs, dirOrder, pxsb, todo, dirs, runs, before,
                   found, copied>>
    /\ UNCHANGED testVars

\* build.py is started again with the same arguments on the same target/
Rerun ==
    /\ pc \in {"done", "crashed"}
    /\ runs < MaxRuns
    /\ runs' = runs + 1
    /\ before' = pxsb
    /\ pc' = "args"
    /\ ai' = 0
    /\ target' = <<>>
    /\ rtarget' = <<>>
    /\ features' = <<<<"-", "-", "n", "o", "-", "d", "e", "f", "a", "u", "l", "t", "-", "f", "e", "a", "t", "u", "r", "e", "s">>>>
    /\ cmd' = <<>>
    /\ path_to_build' = <<>>
    /\ path_to_release' = <<>>
    /\ todo' = <<>>
    /\ dirs' = <<>>
    /\ found' = {}
    /\ copied' = {}
    /\ UNCHANGED <<argv, fs, dirOrder, pxsb>>
    /\ UNCHANGED testVars

TestIdle ==
    /\ skipArgs = <<>>
    /\ skipped_tests = <<>>
    /\ testFiles = <<>>
    /\ listing = <<>>
    /\ ti = 0
    /\ tpc = "off"
    /\ opened = {}
    /\ executed = <<>>

BuildStart ==
    /\ ai = 0
    /\ target = <<>>
    /\ rtarget = <<>>
    /\ features = <<<<"-", "-", "n", "o", "-", "d", "e", "f", "a", "u", "l", "t", "-", "f", "e", "a", "t", "u", "r", "e", "s">>>>
    /\ cmd = <<>>
    /\ path_to_build = <<>>
    /\ path_to_release = <<>>
    /\ pc = "args"
    /\ todo = <<>>
    /\ dirs = <<>>
    /\ runs = 1
    /\ before = pxsb
    /\ found = {}
    /\ copied = {}

\* the collector on every file system, without and with a target triple
Init ==
    /\ argv \in {<<>>, <<ArgTarget>>}
    /\ fs \in FileSystems
    /\ dirOrder \in ListOrders
    /\ pxsb \in InitialSources
    /\ BuildStart
    /\ TestIdle

Next ==
    \/ ParseArg
    \/ RunCargo
    \/ PrepareSource
    \/ CollectRelease
    \/ Move
    \/ ListBuildDir
    \/ VisitBuildEntry
    \/ Finish
    \/ Rerun

Spec == Init /\ [][Next]_vars

----------------------------------------------------------------------------
(* The command line of build.py on its own: every argument list, one tree *)

SampleFiles ==
    { <<"t", "a", "r", "g", "e", "t", "/", "r", "e", "l", "e", "a", "s", "e", "/", "p", "i", "x", "e", "l", "s", "c", "r", "i", "p", "t", ".", "s", "o">>,
      <<"t", "a", "r", "g", "e", "t", "/", "r", "e", "l", "e", "a", "s", "e", "/", "b", "u", "i", "l", "d", "/", "m", "l", "u", "a", "-", "1", "/", "o", "u", "t", "/", "l", "u", "a", ".", "a">>,
      <<"t", "a", "r", "g", "e", "t", "/", "x", "/", "r", "e", "l", "e", "a", "s", "e", "/", "p", "i", "x", "e", "l", "s", "c", "r", "i", "p", "t", ".", "s", "o">>,
      <<"t", "a", "r", "g", "e", "t", "/", "x", "/", "r", "e", "l", "e", "a", "s", "e", "/", "b", "u", "i", "l", "d", "/", "m", "l", "u", "a", "-", "1", "/", "o", "u", "t", "/", "l", "u", "a", ".", "a">> }

ArgInit ==
    /\ argv \in ArgLists
    /\ fs = SampleFiles
    /\ dirOrder \in ListOrders
    /\ pxsb \in InitialSources
    /\ BuildStart
    /\ TestIdle

ArgSpec == ArgInit /\ [][Next]_vars

----------------------------------------------------------------------------
(* test.py *)

REPL == <<"t", "e", "s", "t", "_", "r", "e", "p", "l", ".", "r", "s">>
LineIndex == 8        \* f.readlines()[8]
Marker == <<"/", "/">>
MarkerSep == <<"/", "/", " ">>

\* variant: test_repl.rs is not appended
SkippedArgsOnly(args) == args

\* lines 8-9: the names the loop skips
SkippedTests(args) == Append(args, REPL)

InSeq(x, s) == \E i \in 1..Len(s) : s[i] = x

\* variant: a missing ninth line reads as an empty line
line9_lenient(lines) ==
    IF Len(lines) > LineIndex
    THEN [ok |-> TRUE, line |-> lines[LineIndex + 1]]
    ELSE [ok |-> TRUE, line |-> <<>>]

\* line 20: f.readlines()[8]; ok is FALSE when the index is out of range
line9(lines) ==
    IF Len(lines) > LineIndex
    THEN [ok |-> TRUE, line |-> lines[LineIndex + 1]]
    ELSE [ok |-> FALSE, line |-> <<>>]

\* line 26
Command(line) == Last(Split(line, MarkerSep))

(* The inputs of test.py *)

TestNames == {REPL, <<"a", ".", "r", "s">>, <<"b", ".", "r", "s">>, <<"c", ".", "r", "s">>}

Decoy == <<"/", "/", " ", "d", "\n">>

\* a file of ten lines with the given ninth line
FileWith(l9) == <<Decoy, Decoy, Decoy, Decoy, Decoy, Decoy, Decoy, Decoy, l9, Decoy>>
\* a file of eight lines
ShortFile == <<Decoy, Decoy, Decoy, Decoy, Decoy, Decoy, Decoy, Decoy>>

NinthLines == { <<"/", "/", " ", "a", "\n">>, <<"/", "/", "a", "\n">>, <<"/", "/", " ", "a", " ", "/", "/", " ", "b", "\n">>, <<"a", "\n">> }

TestContents == {FileWith(l) : l \in NinthLines} \cup {ShortFile}

TestDirs ==
    UNION {[N -> TestContents] :
             N \in {M \in SUBSET TestNames : Cardinality(M) <= MaxTests}}

BuildIdle ==
    /\ argv = <<>>
    /\ ai = 0
    /\ target = <<>>
    /\ rtarget = <<>>
    /\ features = <<>>
    /\ cmd = <<>>
    /\ path_to_build = <<>>
    /\ path_to_release = <<>>
    /\ fs = {}
    /\ pxsb = NoSource
    /\ pc = "off"
    /\ todo = <<>>
    /\ dirs = <<>>
    /\ runs = 0
    /\ before = NoSource
    /\ found = {}
    /\ copied = {}

\* lines 8-12: the skip list and the listing of tests/
TestStart ==
    /\ tpc = "start"
    /\ skipped_tests' = SkippedTests(skipArgs)
    /\ listing' = Listed(dirOrder, DOMAIN testFiles)
    /\ tpc' = "loop"
    /\ UNCHANGED <<skipArgs, testFiles, ti, opened, executed>>
    /\ UNCHANGED buildVars

\* lines 14-15: the entry is in the skip list
SkipTest ==
    /\ tpc = "loop"
    /\ ti < Len(listing)
    /\ InSeq(listing[ti + 1], skipped_tests)
    /\ ti' = ti + 1
    /\ UNCHANGED <<skipArgs, skipped_tests, testFiles, listing, tpc, opened, executed>>
    /\ UNCHANGED buildVars

\* lines 19-20: the file has no ninth line, readlines()[8] raises IndexError
ReadFault ==
    /\ tpc = "loop"
    /\ ti < Len(listing)
    /\ ~InSeq(listing[ti + 1], skipped_tests)
    /\ ~line9(testFiles[listing[ti + 1]]).ok
    /\ opened' = opened \cup {listing[ti + 1]}
    /\ tpc' = "fault"
    /\ UNCHANGED <<skipArgs, skipped_tests, testFiles, listing, ti, executed>>
    /\ UNCHANGED buildVars

\* lines 22-23: the ninth line is not a comment
NotCommand ==
    /\ tpc = "loop"
    /\ ti < Len(listing)
    /\ ~InSeq(listing[ti + 1], skipped_tests)
    /\ line9(testFiles[listing[ti + 1]]).ok
    /\ ~StartsWith(line9(testFiles[listing[ti + 1]]).line, Marker)
    /\ opened' = opened \cup {listing[ti + 1]}
    /\ ti' = ti + 1
    /\ UNCHANGED <<skipArgs, skipped_tests, testFiles, listing, tpc, executed>>
    /\ UNCHANGED buildVars

\* lines 26-31: the ninth line is a comment, run what it holds
RunCommand ==
    /\ tpc = "loop"
    /\ ti < Len(listing)
    /\ ~InSeq(listing[ti + 1], skipped_tests)
    /\ line9(testFiles[listing[ti + 1]]).ok
    /\ StartsWith(line9(testFiles[listing[ti + 1]]).line, Marker)
    /\ opened' = opened \cup {listing[ti + 1]}
    /\ executed' = Append(executed,
                          [test |-> listing[ti + 1],
                           command |-> Command(line9(testFiles[listing[ti + 1]]).line)])
    /\ ti' = ti + 1
    /\ UNCHANGED <<skipArgs, skipped_tests, testFiles, listing, tpc>>
    /\ UNCHANGED buildVars

\* the for loop is over
TestFinish ==
    /\ tpc = "loop"
    /\ ti = Len(listing)
    /\ tpc' = "done"
    /\ UNCHANGED <<skipArgs, skipped_tests, testFiles, listing, ti, opened, executed>>
    /\ UNCHANGED buildVars

TestInit ==
    /\ skipArgs \in SeqsUpTo(TestNames, MaxSkip)
    /\ testFiles \in TestDirs
    /\ dirOrder \in ListOrders
    /\ skipped_tests = <<>>
    /\ listing = <<>>
    /\ ti = 0
    /\ tpc = "start"
    /\ opened = {}
    /\ executed = <<>>
    /\ BuildIdle

TestNext ==
    \/ TestStart
    \/ SkipTest
    \/ ReadFault
    \/ NotCommand
    \/ RunCommand
    \/ TestFinish

TestSpec == TestInit /\ [][TestNext]_vars

----------------------------------------------------------------------------
(* Properties of build.py *)

Comps(p) == Split(p, Slash)
Elems(q) == {q[i] : i \in 1..Len(q)}

\* the files of SOURCE that build.py put there
Made == {e \in pxsb.files : e.run >= 1}

\* what a later observer sees of SOURCE: names and contents
Content(p) ==
    [kind |-> p.kind,
     files |-> {[name |-> e.name, src |-> e.src, isdir |-> e.isdir] : e \in p.files}]

\* C1 -- clean slate: after a run that completes, every file of pxsb is a
\* copy made during that run of a file one of the run's globs found; nothing
\* that was in pxsb before the run remains.
CleanSlate ==
    pc = "done" =>
        /\ pxsb.kind = "dir"
        /\ \A e \in pxsb.files :
              /\ ~e.isdir
              /\ e.run = runs
              /\ \E g \in found : convert_path(g) = e.src

CleanSlateWitness ==
    /\ pc = "done"
    /\ runs = 1
    /\ before = Leftover
    /\ \E e \in pxsb.files : e.name = <<"l", "u", "a", ".", "a">>
    /\ \E e \in pxsb.files : e.name = <<"p", "i", "x", "e", "l", "s", "c", "r", "i", "p", "t", ".", "s", "o">>

\* C2 -- extension allow-list: a file whose name does not end in .lib, .a,
\* .so or .dylib is never copied, every name build.py creates in pxsb ends in
\* one of them, and target/release holding pixelscript.so and other.txt
\* yields exactly pixelscript.so.
ExtensionAllowList ==
    LET allowed == { <<".", "l", "i", "b">>, <<".", "a">>, <<".", "s", "o">>, <<".", "d", "y", "l", "i", "b">> }
        ReleaseFiles == {f \in fs : Len(Comps(f)) = 3
                                    /\ StartsWith(f, <<"t", "a", "r", "g", "e", "t", "/", "r", "e", "l", "e", "a", "s", "e", "/">>)}
    IN  /\ \A e \in Made :
              /\ \E x \in allowed : EndsWith(e.src, x)
              /\ \E x \in allowed : EndsWith(e.name, x)
        /\ \A f \in copied : \E x \in allowed : EndsWith(f, x)
        /\ pc = "done" => \A e \in pxsb.files : \E x \in allowed : EndsWith(e.name, x)
        /\ ( /\ pc = "release"
             /\ todo = <<>>
             /\ argv = <<>>
             /\ ReleaseFiles = { <<"t", "a", "r", "g", "e", "t", "/", "r", "e", "l", "e", "a", "s", "e", "/", "p", "i", "x", "e", "l", "s", "c", "r", "i", "p", "t", ".", "s", "o">>,
                                 <<"t", "a", "r", "g", "e", "t", "/", "r", "e", "l", "e", "a", "s", "e", "/", "o", "t", "h", "e", "r", ".", "t", "x", "t">> } )
           => {e.name : e \in pxsb.files} = { <<"p", "i", "x", "e", "l", "s", "c", "r", "i", "p", "t", ".", "s", "o">> }

ExtensionAllowListWitness ==
    /\ pc = "done"
    /\ <<"t", "a", "r", "g", "e", "t", "/", "r", "e", "l", "e", "a", "s", "e", "/", "o", "t", "h", "e", "r", ".", "t", "x", "t">> \in fs
    /\ <<"t", "a", "r", "g", "e", "t", "/", "r", "e", "l", "e", "a", "s", "e", "/", "p", "i", "x", "e", "l", "s", "c", "r", "i", "p", "t", ".", "s", "o">> \in fs
    /\ {e.name : e \in pxsb.files} = { <<"p", "i", "x", "e", "l", "s", "c", "r", "i", "p", "t", ".", "s", "o">> }

BuildDirs == { <<"t", "a", "r", "g", "e", "t", "/", "r", "e", "l", "e", "a", "s", "e", "/", "b", "u", "i", "l", "d">>, <<"t", "a", "r", "g", "e", "t", "/", "x", "/", "r", "e", "l", "e", "a", "s", "e", "/", "b", "u", "i", "l", "d">> }

\* the path lies below a sub-directory of a build directory whose name
\* starts with neither mlua nor pixelscript
InForeignCrateDir(p) ==
    \E b \in BuildDirs :
        /\ Len(Comps(p)) > Len(Comps(b)) + 1
        /\ SubSeq(Comps(p), 1, Len(Comps(b))) = Comps(b)
        /\ ~StartsWith(Comps(p)[Len(Comps(b)) + 1], <<"m", "l", "u", "a">>)
        /\ ~StartsWith(Comps(p)[Len(Comps(b)) + 1], <<"p", "i", "x", "e", "l", "s", "c", "r", "i", "p", "t">>)

\* C3 -- crate-prefix filter: no file below a sub-directory of the build
\* directory whose name starts with neither mlua nor pixelscript is copied.
CratePrefixFilter ==
    /\ \A f \in copied : ~InForeignCrateDir(f)
    /\ \A e \in Made : ~InForeignCrateDir(e.src)

CratePrefixFilterWitness ==
    /\ pc = "done"
    /\ <<"t", "a", "r", "g", "e", "t", "/", "r", "e", "l", "e", "a", "s", "e", "/", "b", "u", "i", "l", "d", "/", "c", "c", "-", "1", "/", "o", "u", "t", "/", "c", "c", ".", "a">> \in fs
    /\ <<"t", "a", "r", "g", "e", "t", "/", "r", "e", "l", "e", "a", "s", "e", "/", "b", "u", "i", "l", "d", "/", "m", "l", "u", "a", "-", "1", "/", "o", "u", "t", "/", "l", "u", "a", ".", "a">> \in copied

\* C4 -- destination naming: every copy in pxsb is named by the basename of
\* its source, also when a directory or the file name holds several dots.
DestinationNaming ==
    \A e \in Made : e.name = Last(Comps(e.src))

\* the path lies below an entry of the build directory of this run whose
\* name starts with one of LIB_CRATES
InCrateDir(p) ==
    /\ Len(Comps(p)) > Len(Comps(path_to_build)) + 1
    /\ SubSeq(Comps(p), 1, Len(Comps(path_to_build))) = Comps(path_to_build)
    /\ \E i \in 1..Len(LIB_CRATES) :
          StartsWith(Comps(p)[Len(Comps(path_to_build)) + 1], LIB_CRATES[i])

\* no name below the crate directory starts with a dot
Visible(p) ==
    \A i \in (Len(Comps(path_to_build)) + 2)..Len(Comps(p)) : ~Hidden(Comps(p)[i])

Idempotence ==
    (pc \in {"done", "crashed"} /\ runs >= 2) => Content(pxsb) = Content(before)

IdempotenceWitness ==
    /\ pc = "done"
    /\ runs = 2
    /\ \E a \in copied : \E b \in copied : a # b /\ DestName(a) = DestName(b)

----------------------------------------------------------------------------
(* The command line of build.py *)

TargetPrefix == <<"t", "a", "r", "g", "e", "t", "=">>
FeaturesPrefix == <<"f", "e", "a", "t", "u", "r", "e", "s", "=">>

WellFormed(args) ==
    /\ \A i \in 1..Len(args) :
          StartsWith(args[i], TargetPrefix) \/ StartsWith(args[i], FeaturesPrefix)
    /\ Cardinality({i \in 1..Len(args) : StartsWith(args[i], TargetPrefix)}) <= 1
    /\ Cardinality({i \in 1..Len(args) : StartsWith(args[i], FeaturesPrefix)}) <= 1

ValueOf(args, prefix) ==
    LET i == CHOOSE j \in 1..Len(args) : StartsWith(args[j], prefix)
    IN  SubSeq(args[i], Len(prefix) + 1, Len(args[i]))

Has(args, prefix) == \E j \in 1..Len(args) : StartsWith(args[j], prefix)

ExpectedCmd(args) ==
    <<<<"c", "a", "r", "g", "o">>, <<"b", "u", "i", "l", "d">>, <<"-", "-", "r", "e", "l", "e", "a", "s", "e">>>>
    \o (IF Has(args, TargetPrefix)
        THEN <<<<"-", "-", "t", "a", "r", "g", "e", "t", "=">> \o ValueOf(args, TargetPrefix)>> ELSE <<>>)
    \o (IF Has(args, FeaturesPrefix)
        THEN <<<<"-", "-", "n", "o", "-", "d", "e", "f", "a", "u", "l", "t", "-", "f", "e", "a", "t", "u", "r", "e", "s">>, <<"-", "-", "f", "e", "a", "t", "u", "r", "e", "s">>, ValueOf(args, FeaturesPrefix)>>
        ELSE <<>>)

ExpectedRelease(args) ==
    IF Has(args, TargetPrefix)
    THEN <<"t", "a", "r", "g", "e", "t", "/">> \o ValueOf(args, TargetPrefix) \o <<"/", "r", "e", "l", "e", "a", "s", "e">>
    ELSE <<"t", "a", "r", "g", "e", "t", "/", "r", "e", "l", "e", "a", "s", "e">>

\* C9 -- for every argument list with at most one target=<triple> and at most
\* one features=<flags>, in either order, the command is cargo build --release,
\* then --target=<triple> iff a target was given, then --no-default-features
\* --features <flags> iff features were given, and the release directory is
\* target/<triple>/release with a target, target/release without.
BuildCommandConstruction ==
    (pc # "args" /\ WellFormed(argv)) =>
        /\ cmd = ExpectedCmd(argv)
        /\ path_to_release = ExpectedRelease(argv)

----------------------------------------------------------------------------
(* Properties of test.py *)

Excluded(t) == t = REPL \/ InSeq(t, skipArgs)

RecordsOf(t) == {k \in 1..Len(executed) : executed[k].test = t}

Qualifies(t) ==
    /\ ~Excluded(t)
    /\ Len(testFiles[t]) >= 9
    /\ StartsWith(testFiles[t][9], Marker)

\* C7 -- command extraction: for every entry that is not excluded and whose
\* 9th line begins with //, exactly one command is run, the text of the line
\* after the leading marker and separator; for an entry whose 9th line does
\* not begin with //, none is run.
TestCommandExtraction ==
    \A j \in 1..ti :
        LET t == listing[j]
            lines == testFiles[t]
        IN  (~Excluded(t) /\ Len(lines) >= 9) =>
                IF StartsWith(lines[9], Marker)
                THEN /\ Cardinality(RecordsOf(t)) = 1
                     /\ StartsWith(lines[9], MarkerSep) =>
                          \A k \in RecordsOf(t) :
                              executed[k].command = SubSeq(lines[9], 4, Len(lines[9]))
                ELSE RecordsOf(t) = {}

\* C8 -- always excluded: test_repl.rs and every entry named by a skip
\* argument is never opened and no command of it is run.
AlwaysExcluded ==
    \A t \in {REPL} \cup Elems(skipArgs) :
        /\ t \notin opened
        /\ RecordsOf(t) = {}

AlwaysExcludedWitness ==
    /\ tpc = "done"
    /\ skipArgs = <<<<"a", ".", "r", "s">>>>
    /\ DOMAIN testFiles = {REPL, <<"a", ".", "r", "s">>, <<"b", ".", "r", "s">>}
    /\ testFiles[REPL] = FileWith(<<"/", "/", " ", "a", "\n">>)
    /\ testFiles[<<"a", ".", "r", "s">>] = FileWith(<<"/", "/", " ", "a", "\n">>)
    /\ RecordsOf(<<"b", ".", "r", "s">>) # {}

\* C10 -- a file with fewer than 9 lines aborts the run: the loop never gets
\* past such an entry that is not excluded; at the fault no command of that
\* entry or of a later entry has run, and the commands of all qualifying
\* earlier entries have run.
MalformedAborts ==
    /\ \A j \in 1..ti :
          ~Excluded(listing[j]) => Len(testFiles[listing[j]]) >= 9
    /\ tpc = "fault" =>
          /\ ti < Len(listing)
          /\ ~Excluded(listing[ti + 1])
          /\ Len(testFiles[listing[ti + 1]]) < 9
          /\ \A j \in (ti + 1)..Len(listing) : RecordsOf(listing[j]) = {}
          /\ \A j \in 1..ti : Qualifies(listing[j]) => RecordsOf(listing[j]) # {}

MalformedAbortsWitness ==
    /\ tpc = "fault"
    /\ ti = 1
    /\ Len(executed) = 1
    /\ Len(listing) = 3
    /\ Qualifies(listing[3])

====
